---- MODULE Spec2Model ----
(***************************************************************************)
(* State-machine model of vue-easy-google-autocomplete:                    *)
(*   - utils/debounce            (debounce)                                *)
(*   - hooks/AutocompleteGoogle  (loadGoogleMapsApi and the                *)
(*                                useGooglePlacesAutocomplete hook)        *)
(* Several hook instances share one page: one document.head, one           *)
(* googleMapsApiLoaded flag, one global `google` object, one timer table.  *)
(* Execution is the browser's event loop: every action below is one task   *)
(* (a call from the UI, a timer callback, a script event, a service        *)
(* callback) together with the microtasks it triggers.                     *)
(***************************************************************************)
EXTENDS Integers, Sequences, FiniteSets

\* ------------------------------------------------------------------ bounds
NumInst == 2
MaxCalls == 2
MaxDetails == 1
\* milliseconds of one clock tick
TickMs == 150

\* options.debounceTime || 300, in milliseconds
debounceTime == 300

\* the debounceTime option the widget passes to the hook, in milliseconds
widgetDebounceTime == 500

Inst == 1..NumInst
Inputs == {"", "a", "b"}
\* place ids handed to fetchPlaceDetails
PlaceIds == {"p1"}

\* what getPlacePredictions hands to its callback: Prediction[] | null
\* (a prediction is named by its place_id)
PredictionLists == {<<>>, <<"p1">>, <<"p1", "p2">>, <<"p2", "p1">>}
ServiceResults ==
    {[isNull |-> TRUE, items |-> <<>>]}
        \cup {[isNull |-> FALSE, items |-> s] : s \in PredictionLists}

\* what getDetails hands to its callback: (place | null, status)
ServicePlaces == {"null", "place"}
ServiceStatuses == {"OK", "ZERO_RESULTS"}

\* the pairs the callback accepts: its parameters are typed
\* (PlaceResult | null, PlacesServiceStatus) and it tests both
ServiceDetails == [place : ServicePlaces, status : ServiceStatuses]

NotFoundError == "Place details not found"

NoResponse == [call |-> 0, result |-> [isNull |-> TRUE, items |-> <<>>], newest |-> 0]
NoDetailResponse == [place |-> "none", status |-> "none"]

VARIABLES
    googleMapsApiLoaded,    \* module-level flag of hooks/AutocompleteGoogle
    googleDefined,          \* typeof google !== 'undefined' && google.maps && google.maps.places
    scripts,                \* script elements appended to document.head, in order
    mountPc,                \* per instance: position of the onMounted callback
    alive,                  \* per instance: the owning component is not unmounted
    isGoogleMapsApiLoaded,  \* per instance ref
    loading,                \* per instance ref
    predictions,            \* per instance ref
    timeout,                \* per instance: the debounce closure's timer handle (0 = unset)
    timers,                 \* the browser's table of scheduled timers
    queries,                \* getPlacePredictions requests awaiting their callback
    details,                \* fetchPlaceDetails calls, in call order, with their promise state
    calls,                  \* history: fetchPredictions calls, in call order
    sinceLast,              \* history: ticks since the instance's previous call (capped)
    lastResp,               \* history: the response applied last since the last reset
    lastReset,              \* history: the instance whose resetPredictions() produced this
                            \* state, 0 when another operation did
    query,                  \* per widget: the text of the input box (v-model)
    emitted,                \* the events the widgets emitted, in order
    selections              \* selectPlace calls, in call order, with their position

vars == <<googleMapsApiLoaded, googleDefined, scripts, mountPc, alive,
          isGoogleMapsApiLoaded, loading, predictions, timeout, timers,
          queries, details, calls, sinceLast, lastResp, lastReset,
          query, emitted, selections>>

loaderVars == <<googleMapsApiLoaded, googleDefined, scripts, mountPc>>
refVars == <<isGoogleMapsApiLoaded, loading, predictions>>
debounceVars == <<timeout, timers, calls, sinceLast>>
widgetVars == <<query, emitted, selections>>

Max(S) == IF S = {} THEN 0 ELSE CHOOSE x \in S : \A y \in S : y <= x

\* ids of the calls of instance i whose invocation issued a prediction query
Issued(i) == {k \in 1..Len(calls) : calls[k].inst = i /\ calls[k].status = "issued"}

Init ==
    /\ googleMapsApiLoaded = FALSE
    /\ googleDefined \in BOOLEAN
    /\ scripts = <<>>
    /\ mountPc = [i \in Inst |-> "setup"]
    /\ alive = [i \in Inst |-> TRUE]
    /\ isGoogleMapsApiLoaded = [i \in Inst |-> FALSE]
    /\ loading = [i \in Inst |-> FALSE]
    /\ predictions = [i \in Inst |-> <<>>]
    /\ timeout = [i \in Inst |-> 0]
    /\ timers = {}
    /\ queries = {}
    /\ details = <<>>
    /\ calls = <<>>
    /\ sinceLast = [i \in Inst |-> debounceTime]
    /\ lastResp = [i \in Inst |-> NoResponse]
    /\ lastReset = 0
    /\ query = [i \in Inst |-> ""]
    /\ emitted = <<>>
    /\ selections = <<>>

\* ------------------------------------------------------- script loader
\* loadGoogleMapsApi, called from onMounted and awaited there: resolves at
\* once when the flag is set, otherwise appends a script element and stays
\* pending until that element's load or error event.
loadGoogleMapsApi(i) ==
    IF googleMapsApiLoaded
        THEN /\ isGoogleMapsApiLoaded' = [isGoogleMapsApiLoaded EXCEPT ![i] = TRUE]
             /\ mountPc' = [mountPc EXCEPT ![i] = "done"]
             /\ UNCHANGED scripts
        ELSE /\ scripts' = Append(scripts, [owner |-> i, state |-> "loading"])
             /\ mountPc' = [mountPc EXCEPT ![i] = "awaitLoad"]
             /\ UNCHANGED isGoogleMapsApiLoaded

\* variant: an instance that finds the capability present sets the flag
onMountedSetsFlag(i) ==
    /\ mountPc[i] = "setup"
    /\ alive[i]
    /\ IF googleDefined
          THEN /\ isGoogleMapsApiLoaded' = [isGoogleMapsApiLoaded EXCEPT ![i] = TRUE]
               /\ mountPc' = [mountPc EXCEPT ![i] = "done"]
               /\ googleMapsApiLoaded' = TRUE
               /\ UNCHANGED scripts
          ELSE /\ loadGoogleMapsApi(i)
               /\ UNCHANGED googleMapsApiLoaded
    /\ lastReset' = 0
    /\ UNCHANGED widgetVars
    /\ UNCHANGED <<googleDefined, alive, loading, predictions,
                   debounceVars, queries, details, lastResp>>

\* variant: the script is requested without looking for the capability
onMountedAlwaysLoads(i) ==
    /\ mountPc[i] = "setup"
    /\ alive[i]
    /\ loadGoogleMapsApi(i)
    /\ lastReset' = 0
    /\ UNCHANGED widgetVars
    /\ UNCHANGED <<googleMapsApiLoaded, googleDefined, alive, loading, predictions,
                   debounceVars, queries, details, lastResp>>

\* the onMounted callback of instance i, up to its first suspension
onMounted(i) ==
    /\ mountPc[i] = "setup"
    /\ alive[i]
    /\ IF googleDefined
          THEN /\ isGoogleMapsApiLoaded' = [isGoogleMapsApiLoaded EXCEPT ![i] = TRUE]
               /\ mountPc' = [mountPc EXCEPT ![i] = "done"]
               /\ UNCHANGED scripts
          ELSE loadGoogleMapsApi(i)
    /\ lastReset' = 0
    /\ UNCHANGED widgetVars
    /\ UNCHANGED <<googleMapsApiLoaded, googleDefined, alive, loading, predictions,
                   debounceVars, queries, details, lastResp>>

\* variant: the load marks every instance as loaded
scriptOnloadAll(s) ==
    /\ s \in 1..Len(scripts)
    /\ scripts[s].state = "loading"
    /\ scripts' = [scripts EXCEPT ![s].state = "loaded"]
    /\ googleMapsApiLoaded' = TRUE
    /\ googleDefined' = TRUE
    /\ isGoogleMapsApiLoaded' = [i \in Inst |-> TRUE]
    /\ mountPc' = [mountPc EXCEPT ![scripts[s].owner] = "done"]
    /\ lastReset' = 0
    /\ UNCHANGED widgetVars
    /\ UNCHANGED <<alive, loading, predictions, debounceVars, queries, details, lastResp>>

\* script.onload of the s-th script element, then the awaiting onMounted resumes
scriptOnload(s) ==
    /\ s \in 1..Len(scripts)
    /\ scripts[s].state = "loading"
    /\ scripts' = [scripts EXCEPT ![s].state = "loaded"]
    /\ googleMapsApiLoaded' = TRUE
    /\ googleDefined' = TRUE
    /\ isGoogleMapsApiLoaded' = [isGoogleMapsApiLoaded EXCEPT ![scripts[s].owner] = TRUE]
    /\ mountPc' = [mountPc EXCEPT ![scripts[s].owner] = "done"]
    /\ lastReset' = 0
    /\ UNCHANGED widgetVars
    /\ UNCHANGED <<alive, loading, predictions, debounceVars, queries, details, lastResp>>

\* variant: the flag of the instance is set in a finally block
scriptOnerrorFinally(s) ==
    /\ s \in 1..Len(scripts)
    /\ scripts[s].state = "loading"
    /\ scripts' = [scripts EXCEPT ![s].state = "error"]
    /\ mountPc' = [mountPc EXCEPT ![scripts[s].owner] = "caught"]
    /\ isGoogleMapsApiLoaded' = [isGoogleMapsApiLoaded EXCEPT ![scripts[s].owner] = TRUE]
    /\ lastReset' = 0
    /\ UNCHANGED widgetVars
    /\ UNCHANGED <<googleMapsApiLoaded, googleDefined, alive, loading, predictions,
                   debounceVars, queries, details, lastResp>>

\* script.onerror of the s-th script element, then the catch block of onMounted
scriptOnerror(s) ==
    /\ s \in 1..Len(scripts)
    /\ scripts[s].state = "loading"
    /\ scripts' = [scripts EXCEPT ![s].state = "error"]
    /\ mountPc' = [mountPc EXCEPT ![scripts[s].owner] = "caught"]
    /\ lastReset' = 0
    /\ UNCHANGED widgetVars
    /\ UNCHANGED <<googleMapsApiLoaded, googleDefined, alive, refVars, debounceVars,
                   queries, details, lastResp>>

\* the owning component is unmounted; the hook registers no cleanup
Unmount(i) ==
    /\ alive[i]
    /\ mountPc[i] # "setup"
    /\ alive' = [alive EXCEPT ![i] = FALSE]
    /\ lastReset' = 0
    /\ UNCHANGED widgetVars
    /\ UNCHANGED <<loaderVars, refVars, debounceVars, queries, details, lastResp>>

\* ------------------------------------------------------------ debounce
\* variant: the pending timer is not cleared
ClearTimeoutNoop(tms, id) == tms

\* clearTimeout(id): a scheduled timer is removed, a fired one is not there
ClearTimeout(tms, id) == {t \in tms : t.id # id}

\* the function debounce returns: clear the pending timer, schedule a new one
debounced(i, input, wait) ==
    /\ LET id == Len(calls) + 1
           kept == IF timeout[i] # 0 THEN ClearTimeout(timers, timeout[i]) ELSE timers
       IN  /\ timers' = kept \cup {[id |-> id, inst |-> i, args |-> input,
                                    remaining |-> wait]}
           /\ timeout' = [timeout EXCEPT ![i] = id]
    /\ calls' = Append(calls, [inst |-> i, input |-> input, gap |-> sinceLast[i],
                               loaded |-> isGoogleMapsApiLoaded[i],
                               status |-> "pending"])
    /\ sinceLast' = [sinceLast EXCEPT ![i] = 0]

\* fetchPredictions(input) called on the hook of instance i
fetchPredictions(i, input) ==
    /\ alive[i]
    /\ Len(calls) < MaxCalls
    /\ debounced(i, input, debounceTime)
    /\ lastReset' = 0
    /\ UNCHANGED widgetVars
    /\ UNCHANGED <<loaderVars, alive, refVars, queries, details, lastResp>>

\* variant: loading is raised before the guard
timerCallbackLoadingFirst(t) ==
    /\ t \in timers
    /\ t.remaining = 0
    /\ timers' = timers \ {t}
    /\ loading' = [loading EXCEPT ![t.inst] = TRUE]
    /\ IF ~isGoogleMapsApiLoaded[t.inst] \/ t.args = ""
          THEN /\ calls' = [calls EXCEPT ![t.id].status = "noop"]
               /\ UNCHANGED queries
          ELSE /\ queries' = queries \cup {[inst |-> t.inst, call |-> t.id, input |-> t.args]}
               /\ calls' = [calls EXCEPT ![t.id].status = "issued"]
    /\ lastReset' = 0
    /\ UNCHANGED widgetVars
    /\ UNCHANGED <<loaderVars, alive, isGoogleMapsApiLoaded, predictions, timeout,
                   sinceLast, details, lastResp>>

\* variant: an empty input clears the list
timerCallbackClears(t) ==
    /\ t \in timers
    /\ t.remaining = 0
    /\ timers' = timers \ {t}
    /\ IF ~isGoogleMapsApiLoaded[t.inst] \/ t.args = ""
          THEN /\ calls' = [calls EXCEPT ![t.id].status = "noop"]
               /\ predictions' = [predictions EXCEPT ![t.inst] = <<>>]
               /\ UNCHANGED <<loading, queries>>
          ELSE /\ loading' = [loading EXCEPT ![t.inst] = TRUE]
               /\ queries' = queries \cup {[inst |-> t.inst, call |-> t.id, input |-> t.args]}
               /\ calls' = [calls EXCEPT ![t.id].status = "issued"]
               /\ UNCHANGED predictions
    /\ lastReset' = 0
    /\ UNCHANGED widgetVars
    /\ UNCHANGED <<loaderVars, alive, isGoogleMapsApiLoaded, timeout,
                   sinceLast, details, lastResp>>

\* variant: a search is skipped while another one is loading
timerCallbackSkipsWhileLoading(t) ==
    /\ t \in timers
    /\ t.remaining = 0
    /\ timers' = timers \ {t}
    /\ IF ~isGoogleMapsApiLoaded[t.inst] \/ t.args = "" \/ loading[t.inst]
          THEN /\ calls' = [calls EXCEPT ![t.id].status = "noop"]
               /\ UNCHANGED <<loading, queries>>
          ELSE /\ loading' = [loading EXCEPT ![t.inst] = TRUE]
               /\ queries' = queries \cup {[inst |-> t.inst, call |-> t.id, input |-> t.args]}
               /\ calls' = [calls EXCEPT ![t.id].status = "issued"]
    /\ lastReset' = 0
    /\ UNCHANGED widgetVars
    /\ UNCHANGED <<loaderVars, alive, isGoogleMapsApiLoaded, predictions, timeout,
                   sinceLast, details, lastResp>>

\* the timer callback: func(...args), func being the async function wrapped
\* by debounce in the hook, up to the getPlacePredictions request
timerCallback(t) ==
    /\ t \in timers
    /\ t.remaining = 0
    /\ timers' = timers \ {t}
    /\ IF ~isGoogleMapsApiLoaded[t.inst] \/ t.args = ""
          THEN /\ calls' = [calls EXCEPT ![t.id].status = "noop"]
               /\ UNCHANGED <<loading, queries>>
          ELSE /\ loading' = [loading EXCEPT ![t.inst] = TRUE]
               /\ queries' = queries \cup {[inst |-> t.inst, call |-> t.id, input |-> t.args]}
               /\ calls' = [calls EXCEPT ![t.id].status = "issued"]
    /\ lastReset' = 0
    /\ UNCHANGED widgetVars
    /\ UNCHANGED <<loaderVars, alive, isGoogleMapsApiLoaded, predictions, timeout,
                   sinceLast, details, lastResp>>

\* variant: a response is dropped when a more recent query has been issued
getPlacePredictionsCallbackDropStale(q, results) ==
    /\ q \in queries
    /\ queries' = queries \ {q}
    /\ predictions' = [predictions EXCEPT
                          ![q.inst] = IF q.call < Max(Issued(q.inst)) THEN @
                                      ELSE IF results.isNull THEN <<>> ELSE results.items]
    /\ loading' = [loading EXCEPT ![q.inst] = FALSE]
    /\ lastResp' = [lastResp EXCEPT ![q.inst] =
                       [call |-> q.call, result |-> results, newest |-> Max(Issued(q.inst))]]
    /\ lastReset' = 0
    /\ UNCHANGED widgetVars
    /\ UNCHANGED <<loaderVars, alive, isGoogleMapsApiLoaded, debounceVars, details>>

\* variant: the list is stored in reverse order
Reverse(seq) == [k \in 1..Len(seq) |-> seq[Len(seq) + 1 - k]]

getPlacePredictionsCallbackReversed(q, results) ==
    /\ q \in queries
    /\ queries' = queries \ {q}
    /\ predictions' = [predictions EXCEPT
                          ![q.inst] = IF results.isNull THEN <<>> ELSE Reverse(results.items)]
    /\ loading' = [loading EXCEPT ![q.inst] = FALSE]
    /\ lastResp' = [lastResp EXCEPT ![q.inst] =
                       [call |-> q.call, result |-> results, newest |-> Max(Issued(q.inst))]]
    /\ lastReset' = 0
    /\ UNCHANGED widgetVars
    /\ UNCHANGED <<loaderVars, alive, isGoogleMapsApiLoaded, debounceVars, details>>

\* variant: loading stays up while another query of the instance is out
getPlacePredictionsCallbackKeepsLoading(q, results) ==
    /\ q \in queries
    /\ queries' = queries \ {q}
    /\ predictions' = [predictions EXCEPT
                          ![q.inst] = IF results.isNull THEN <<>> ELSE results.items]
    /\ loading' = [loading EXCEPT ![q.inst] = \E o \in queries \ {q} : o.inst = q.inst]
    /\ lastResp' = [lastResp EXCEPT ![q.inst] =
                       [call |-> q.call, result |-> results, newest |-> Max(Issued(q.inst))]]
    /\ lastReset' = 0
    /\ UNCHANGED widgetVars
    /\ UNCHANGED <<loaderVars, alive, isGoogleMapsApiLoaded, debounceVars, details>>

\* the callback handed to getPlacePredictions
getPlacePredictionsCallback(q, results) ==
    /\ q \in queries
    /\ queries' = queries \ {q}
    /\ predictions' = [predictions EXCEPT
                          ![q.inst] = IF results.isNull THEN <<>> ELSE results.items]
    /\ loading' = [loading EXCEPT ![q.inst] = FALSE]
    /\ lastResp' = [lastResp EXCEPT ![q.inst] =
                       [call |-> q.call, result |-> results, newest |-> Max(Issued(q.inst))]]
    /\ lastReset' = 0
    /\ UNCHANGED widgetVars
    /\ UNCHANGED <<loaderVars, alive, isGoogleMapsApiLoaded, debounceVars, details>>

\* one clock tick: scheduled timers come closer to due; a due timer may
\* still run late, after other tasks
Tick ==
    /\ \/ \E t \in timers : t.remaining > 0
       \/ \E i \in Inst : sinceLast[i] < debounceTime
    /\ timers' = {[t EXCEPT !.remaining = IF @ > TickMs THEN @ - TickMs ELSE 0] : t \in timers}
    /\ sinceLast' = [i \in Inst |->
                        IF sinceLast[i] + TickMs < debounceTime
                            THEN sinceLast[i] + TickMs ELSE debounceTime]
    /\ lastReset' = 0
    /\ UNCHANGED widgetVars
    /\ UNCHANGED <<loaderVars, alive, refVars, timeout, calls, queries, details, lastResp>>

\* ------------------------------------------------- details and reset
\* the promise fetchPlaceDetails(placeId) returns, as it is on return:
\* fulfilled with undefined when the API is not loaded, pending on the
\* getDetails request otherwise
DetailCall(i, placeId) ==
    IF ~isGoogleMapsApiLoaded[i]
        THEN [inst |-> i, placeId |-> placeId, loaded |-> FALSE,
              state |-> "fulfilled", value |-> "undefined",
              response |-> NoDetailResponse]
        ELSE [inst |-> i, placeId |-> placeId, loaded |-> TRUE,
              state |-> "pending", value |-> "none",
              response |-> NoDetailResponse]

\* variant: the lookup is issued whether or not the API is loaded
fetchPlaceDetailsNoGuard(i, placeId) ==
    /\ alive[i]
    /\ Len(details) < MaxDetails
    /\ details' = Append(details,
           [inst |-> i, placeId |-> placeId, loaded |-> isGoogleMapsApiLoaded[i],
            state |-> "pending", value |-> "none", response |-> NoDetailResponse])
    /\ lastReset' = 0
    /\ UNCHANGED widgetVars
    /\ UNCHANGED <<loaderVars, alive, refVars, debounceVars, queries, lastResp>>

\* variant: the lookup raises loading like a search does
fetchPlaceDetailsLoading(i, placeId) ==
    /\ alive[i]
    /\ Len(details) < MaxDetails
    /\ IF ~isGoogleMapsApiLoaded[i]
          THEN /\ details' = Append(details,
                      [inst |-> i, placeId |-> placeId, loaded |-> FALSE,
                       state |-> "fulfilled", value |-> "undefined",
                       response |-> NoDetailResponse])
               /\ UNCHANGED loading
          ELSE /\ details' = Append(details,
                      [inst |-> i, placeId |-> placeId, loaded |-> TRUE,
                       state |-> "pending", value |-> "none",
                       response |-> NoDetailResponse])
               /\ loading' = [loading EXCEPT ![i] = TRUE]
    /\ lastReset' = 0
    /\ UNCHANGED widgetVars
    /\ UNCHANGED <<loaderVars, alive, isGoogleMapsApiLoaded, predictions, debounceVars,
                   queries, lastResp>>

\* fetchPlaceDetails(placeId): the async function up to the getDetails request
fetchPlaceDetails(i, placeId) ==
    /\ alive[i]
    /\ Len(details) < MaxDetails
    /\ details' = Append(details, DetailCall(i, placeId))
    /\ lastReset' = 0
    /\ UNCHANGED widgetVars
    /\ UNCHANGED <<loaderVars, alive, refVars, debounceVars, queries, lastResp>>

\* the callback handed to placesService.getDetails
getDetailsCallback(d, place, status) ==
    /\ d \in 1..Len(details)
    /\ details[d].state = "pending"
    /\ IF status = "OK" /\ place # "null"
          THEN details' = [details EXCEPT ![d].state = "fulfilled", ![d].value = place,
                               ![d].response = [place |-> place, status |-> status]]
          ELSE details' = [details EXCEPT ![d].state = "rejected", ![d].value = NotFoundError,
                               ![d].response = [place |-> place, status |-> status]]
    /\ lastReset' = 0
    /\ UNCHANGED widgetVars
    /\ UNCHANGED <<loaderVars, alive, refVars, debounceVars, queries, lastResp>>

\* variant: the reset also ends the loading state
resetPredictionsAndLoading(i) ==
    /\ alive[i]
    /\ predictions' = [predictions EXCEPT ![i] = <<>>]
    /\ loading' = [loading EXCEPT ![i] = FALSE]
    /\ lastResp' = [lastResp EXCEPT ![i] = NoResponse]
    /\ lastReset' = i
    /\ UNCHANGED widgetVars
    /\ UNCHANGED <<loaderVars, alive, isGoogleMapsApiLoaded, debounceVars,
                   queries, details>>

resetPredictions(i) ==
    /\ alive[i]
    /\ predictions' = [predictions EXCEPT ![i] = <<>>]
    /\ lastResp' = [lastResp EXCEPT ![i] = NoResponse]
    /\ lastReset' = i
    /\ UNCHANGED widgetVars
    /\ UNCHANGED <<loaderVars, alive, isGoogleMapsApiLoaded, loading, debounceVars,
                   queries, details>>


\* -------------------------------------------------------------- widget
\* The GooglePlacesAutocomplete component: one hook instance per widget,
\* reached only through handleInput and selectPlace.

\* the user types text into the input box: v-model, then handleInput
handleInput(i, text) ==
    /\ alive[i]
    /\ Len(calls) < MaxCalls
    /\ query' = [query EXCEPT ![i] = text]
    /\ debounced(i, text, widgetDebounceTime)
    /\ emitted' = Append(emitted, [inst |-> i, name |-> "input", payload |-> text])
    /\ lastReset' = 0
    /\ UNCHANGED <<loaderVars, alive, refVars, queries, details, lastResp, selections>>

\* the user clicks the n-th item of the list: selectPlace up to its await
selectPlace(i, n) ==
    /\ alive[i]
    /\ Len(details) < MaxDetails
    /\ n \in 1..Len(predictions[i])
    /\ query' = [query EXCEPT ![i] = predictions[i][n]]
    /\ details' = Append(details, DetailCall(i, predictions[i][n]))
    /\ selections' = Append(selections,
           [inst |-> i, detail |-> Len(details) + 1, state |-> "awaiting", callsAtReset |-> 0])
    /\ lastReset' = 0
    /\ UNCHANGED <<loaderVars, alive, refVars, debounceVars, queries, lastResp, emitted>>

\* variant: the reset after a selection also cancels the search under way
selectPlaceResumeCancels(n) ==
    /\ n \in 1..Len(selections)
    /\ selections[n].state = "awaiting"
    /\ details[selections[n].detail].state # "pending"
    /\ LET i == selections[n].inst
           d == details[selections[n].detail]
       IN  IF d.state = "fulfilled"
              THEN /\ emitted' = Append(emitted,
                          [inst |-> i, name |-> "place-selected", payload |-> d.value])
                   /\ predictions' = [predictions EXCEPT ![i] = <<>>]
                   /\ lastResp' = [lastResp EXCEPT ![i] = NoResponse]
                   /\ lastReset' = i
                   /\ timers' = {t \in timers : t.inst # i}
                   /\ selections' = [selections EXCEPT ![n].state = "emitted",
                                                       ![n].callsAtReset = Len(calls)]
              ELSE /\ selections' = [selections EXCEPT ![n].state = "thrown"]
                   /\ lastReset' = 0
                   /\ UNCHANGED <<emitted, predictions, lastResp, timers>>
    /\ UNCHANGED <<loaderVars, alive, isGoogleMapsApiLoaded, loading, timeout, calls,
                   sinceLast, queries, details, query>>

\* selectPlace after its await: on a fulfilled lookup it emits
\* 'place-selected' and calls resetPredictions(); on a rejected one the
\* await throws and the rest of the function is not run
selectPlaceResume(n) ==
    /\ n \in 1..Len(selections)
    /\ selections[n].state = "awaiting"
    /\ details[selections[n].detail].state # "pending"
    /\ LET i == selections[n].inst
           d == details[selections[n].detail]
       IN  IF d.state = "fulfilled"
              THEN /\ emitted' = Append(emitted,
                          [inst |-> i, name |-> "place-selected", payload |-> d.value])
                   /\ predictions' = [predictions EXCEPT ![i] = <<>>]
                   /\ lastResp' = [lastResp EXCEPT ![i] = NoResponse]
                   /\ lastReset' = i
                   /\ selections' = [selections EXCEPT ![n].state = "emitted",
                                                       ![n].callsAtReset = Len(calls)]
              ELSE /\ selections' = [selections EXCEPT ![n].state = "thrown"]
                   /\ lastReset' = 0
                   /\ UNCHANGED <<emitted, predictions, lastResp>>
    /\ UNCHANGED <<loaderVars, alive, isGoogleMapsApiLoaded, loading, debounceVars,
                   queries, details, query>>

\* a settled lookup whose awaiting selectPlace has not resumed yet: its
\* continuation is in the microtask queue and runs before any other task
MicrotaskPending ==
    \E n \in 1..Len(selections) :
        /\ selections[n].state = "awaiting"
        /\ details[selections[n].detail].state # "pending"

\* ------------------------------------------------------ specification
Next ==
    \/ \E i \in Inst : onMounted(i)
    \/ \E s \in 1..Len(scripts) : scriptOnload(s)
    \/ \E s \in 1..Len(scripts) : scriptOnerror(s)
    \/ \E i \in Inst, input \in Inputs : fetchPredictions(i, input)
    \/ \E t \in timers : timerCallback(t)
    \/ \E q \in queries, results \in ServiceResults : getPlacePredictionsCallback(q, results)
    \/ Tick
    \/ \E i \in Inst, placeId \in PlaceIds : fetchPlaceDetails(i, placeId)
    \/ \E d \in 1..Len(details), r \in ServiceDetails :
           getDetailsCallback(d, r.place, r.status)
    \/ \E i \in Inst : resetPredictions(i)

Spec == Init /\ [][Next]_vars

\* the search path of the hooks alone: initialization, calls, timers, responses
NextSearch ==
    \/ \E i \in Inst : onMounted(i)
    \/ \E s \in 1..Len(scripts) : scriptOnload(s)
    \/ \E s \in 1..Len(scripts) : scriptOnerror(s)
    \/ \E i \in Inst, input \in Inputs : fetchPredictions(i, input)
    \/ \E t \in timers : timerCallback(t)
    \/ \E q \in queries, results \in ServiceResults : getPlacePredictionsCallback(q, results)
    \/ Tick

\* the search path with components being unmounted
NextLifecycle == NextSearch \/ \E i \in Inst : Unmount(i)

SpecLifecycle == Init /\ [][NextLifecycle]_vars

\* the search path when time passes, due timers are run and the service
\* answers every query
SpecLive ==
    /\ Init
    /\ [][NextSearch]_vars
    /\ WF_vars(Tick)
    /\ WF_vars(\E t \in timers : timerCallback(t))
    /\ WF_vars(\E q \in queries, results \in ServiceResults :
                  getPlacePredictionsCallback(q, results))

\* the widgets on the page: every call into a hook comes from its widget
NextWidget ==
    \/ /\ ~MicrotaskPending
       /\ \/ \E i \in Inst : onMounted(i)
          \/ \E s \in 1..Len(scripts) : scriptOnload(s)
          \/ \E s \in 1..Len(scripts) : scriptOnerror(s)
          \/ \E i \in Inst, text \in Inputs : handleInput(i, text)
          \/ \E t \in timers : timerCallback(t)
          \/ \E q \in queries, results \in ServiceResults :
                 getPlacePredictionsCallback(q, results)
          \/ Tick
          \/ \E i \in Inst : \E n \in 1..Len(predictions[i]) : selectPlace(i, n)
          \/ \E d \in 1..Len(details), r \in ServiceDetails :
                 getDetailsCallback(d, r.place, r.status)
    \/ \E n \in 1..Len(selections) : selectPlaceResume(n)

SpecWidget == Init /\ [][NextWidget]_vars

TypeOK ==
    /\ googleMapsApiLoaded \in BOOLEAN
    /\ googleDefined \in BOOLEAN
    /\ \A s \in 1..Len(scripts) :
          scripts[s].owner \in Inst /\ scripts[s].state \in {"loading", "loaded", "error"}
    /\ mountPc \in [Inst -> {"setup", "awaitLoad", "done", "caught"}]
    /\ alive \in [Inst -> BOOLEAN]
    /\ isGoogleMapsApiLoaded \in [Inst -> BOOLEAN]
    /\ loading \in [Inst -> BOOLEAN]
    /\ predictions \in [Inst -> PredictionLists]
    /\ timeout \in [Inst -> 0..MaxCalls]
    /\ \A t \in timers : t.id \in 1..Len(calls) /\ t.remaining \in 0..widgetDebounceTime
    /\ \A q \in queries : q.call \in 1..Len(calls) /\ q.inst \in Inst
    /\ Len(calls) <= MaxCalls
    /\ Len(details) <= MaxDetails

\* ------------------------------------------------------------- claims
CallIds == 1..Len(calls)

\* the calls instance calls[k].inst made after call k
LaterCalls(k) == {j \in CallIds : j > k /\ calls[j].inst = calls[k].inst}

Min(S) == CHOOSE x \in S : \A y \in S : x <= y

\* call k was followed, less than the wait later, by another call of its instance
Superseded(k) == LaterCalls(k) # {} /\ calls[Min(LaterCalls(k))].gap < debounceTime

\* C1: debounce coalescing. A call followed by another call of the same
\* instance less than debounceTime later never reaches the wrapped function:
\* its timer is gone, it was not invoked, no query was issued for it; and a
\* query that was issued carries the input of the call it stands for.
DebounceCoalescing ==
    /\ \A k \in CallIds :
          Superseded(k) =>
              /\ calls[k].status = "pending"
              /\ \A t \in timers : t.id # k
              /\ \A q \in queries : q.call # k
    /\ \A q \in queries :
          /\ calls[q.call].status = "issued"
          /\ q.inst = calls[q.call].inst
          /\ q.input = calls[q.call].input

\* a burst of two calls with different inputs: only the second one's query is out
BurstCoalesced ==
    \E k \in CallIds :
        /\ Superseded(k)
        /\ LET j == Min(LaterCalls(k))
           IN  /\ calls[j].input # calls[k].input
               /\ calls[k].input # ""
               /\ calls[j].status = "issued"
               /\ [inst |-> calls[j].inst, call |-> j, input |-> calls[j].input] \in queries

\* C2 (as claimed): predictions never holds the result of a search whose
\* response arrived after a more recent search of the instance was issued.
NoStaleResponseApplied ==
    \A i \in Inst : lastResp[i].call # 0 => lastResp[i].call = lastResp[i].newest

\* C2 (amended): predictions equals the result (null read as the empty list)
\* of the response that arrived last since the last reset, whichever query
\* it answers, and is empty when no response arrived since.
PredictionsReflectLastArrival ==
    \A i \in Inst :
        IF lastResp[i].call = 0
            THEN predictions[i] = <<>>
            ELSE /\ calls[lastResp[i].call].inst = i
                 /\ calls[lastResp[i].call].status = "issued"
                 /\ predictions[i] = IF lastResp[i].result.isNull
                                        THEN <<>> ELSE lastResp[i].result.items

\* the response of an older query is on display while a newer query is out
StaleResponseOnDisplay ==
    \E i \in Inst :
        /\ lastResp[i].call # 0
        /\ lastResp[i].call < lastResp[i].newest
        /\ predictions[i] # <<>>
        /\ \E q \in queries : q.inst = i /\ q.call = lastResp[i].newest

\* C3: loading is true only while some prediction query of the instance is
\* awaiting its response.
LoadingOnlyWhileOutstanding ==
    \A i \in Inst : loading[i] => \E q \in queries : q.inst = i

\* a query is out and loading is up; another instance went through a no-op search
LoadingWhileOutstanding ==
    \E i \in Inst :
        /\ loading[i]
        /\ \E q \in queries : q.inst = i
        /\ \E k \in CallIds : calls[k].status = "noop"

\* C4 (as claimed): at most one script element is ever inserted.
AtMostOneScriptInserted == Len(scripts) <= 1

\* the scripts instance i inserted
ScriptsOf(i) == {s \in 1..Len(scripts) : scripts[s].owner = i}

\* C5: after a failed load the instance stays unloaded, the failure was
\* caught in onMounted, no second script was requested by the instance, and
\* searches and detail lookups of the instance do nothing: no query, no
\* lookup, predictions empty, loading false, detail calls yield undefined.
FailedLoadDegradesToNoOp ==
    \A i \in Inst :
        (\E s \in ScriptsOf(i) : scripts[s].state = "error") =>
            /\ mountPc[i] = "caught"
            /\ ~isGoogleMapsApiLoaded[i]
            /\ Cardinality(ScriptsOf(i)) = 1
            /\ predictions[i] = <<>>
            /\ ~loading[i]
            /\ \A q \in queries : q.inst # i
            /\ \A k \in CallIds : calls[k].inst = i => calls[k].status # "issued"
            /\ \A d \in 1..Len(details) :
                  details[d].inst = i =>
                      /\ details[d].state = "fulfilled"
                      /\ details[d].value = "undefined"

\* after the failure the instance ran a non-empty search and a detail lookup
FailedLoadThenCalls ==
    \E i \in Inst :
        /\ mountPc[i] = "caught"
        /\ \E k \in CallIds :
              calls[k].inst = i /\ calls[k].input # "" /\ calls[k].status = "noop"
        /\ \E d \in 1..Len(details) : details[d].inst = i /\ details[d].value = "undefined"

NoOpSearchChangesNothing ==
    [][\A k \in CallIds :
          (/\ calls[k].status = "pending"
           /\ calls'[k].status # "pending"
           /\ (calls[k].input = "" \/ ~isGoogleMapsApiLoaded[calls[k].inst]))
              => (queries' = queries /\ loading' = loading /\ predictions' = predictions)]_vars

\* an empty-input search ran on a loaded instance after the search whose
\* predictions are still on display
NoOpSearchRan ==
    \E k \in CallIds :
        /\ calls[k].status = "noop"
        /\ calls[k].input = ""
        /\ isGoogleMapsApiLoaded[calls[k].inst]
        /\ predictions[calls[k].inst] # <<>>
        /\ lastResp[calls[k].inst].call # 0
        /\ lastResp[calls[k].inst].call < k

\* C8: resetPredictions() leaves predictions empty and changes neither
\* loading nor isGoogleMapsApiLoaded, whatever the state it is called in.
ResetOnlyClearsPredictions ==
    [][lastReset' # 0 =>
          /\ predictions'[lastReset'] = <<>>
          /\ loading' = loading
          /\ isGoogleMapsApiLoaded' = isGoogleMapsApiLoaded]_vars

\* a reset ran while a query of the instance was out and a timer was pending
ResetDuringSearch ==
    /\ lastReset # 0
    /\ loading[lastReset]
    /\ \E q \in queries : q.inst = lastReset
    /\ \E t \in timers : t.inst = lastReset

\* C9: a detail lookup, from the call to the service callback, changes none
\* of predictions, loading, isGoogleMapsApiLoaded.
DetailLookupLeavesSearchState ==
    [][details' # details =>
          /\ predictions' = predictions
          /\ loading' = loading
          /\ isGoogleMapsApiLoaded' = isGoogleMapsApiLoaded]_vars

\* a lookup was rejected on an instance that is loading and shows predictions
DetailRejectedDuringSearch ==
    \E d \in 1..Len(details) :
        /\ details[d].state = "rejected"
        /\ loading[details[d].inst]
        /\ predictions[details[d].inst] # <<>>

\* C10: fetchPlaceDetails called while the instance is not loaded is
\* fulfilled with undefined; no lookup is issued for it (it is never pending
\* and never gets a service response) and it is not rejected.
DetailWhileUnloadedIsUndefined ==
    \A d \in 1..Len(details) :
        ~details[d].loaded =>
            /\ details[d].state = "fulfilled"
            /\ details[d].value = "undefined"
            /\ details[d].response = NoDetailResponse

\* a detail call was made while the instance's script load was in flight
DetailBeforeLoadCompletes ==
    \E d \in 1..Len(details) :
        /\ ~details[d].loaded
        /\ mountPc[details[d].inst] = "awaitLoad"
        /\ details[d].value = "undefined"

\* two consecutive calls k, j of one instance, made on a loaded instance
\* with non-empty inputs, the second at least the wait after the first
SeparatedPair(k, j) ==
    /\ k \in CallIds
    /\ LaterCalls(k) # {}
    /\ j = Min(LaterCalls(k))
    /\ calls[k].loaded
    /\ calls[k].input # ""
    /\ calls[j].input # ""
    /\ calls[j].gap >= debounceTime

\* C11 (as claimed): of two calls separated by at least the wait, the first
\* has reached the prediction query when the second is made (otherwise the
\* second call clears its timer and it never does).
SeparatedCallsBothReach ==
    \A k, j \in CallIds : SeparatedPair(k, j) => calls[k].status = "issued"

\* C11 (amended): of two such calls neither is ever turned into a no-op and
\* the second is never dropped: it is scheduled with its own input and, once
\* its timer ran, issued. The first reaches the query with its own input
\* exactly when its timer callback ran before the second call was made;
\* a first call whose timer, though due, had not run yet is cancelled.
SeparatedCallsReachUnlessLate ==
    \A k, j \in CallIds :
        SeparatedPair(k, j) =>
            /\ calls[k].status \in {"issued", "pending"}
            /\ calls[k].status = "pending" => \A t \in timers : t.id # k
            /\ calls[j].status \in {"issued", "pending"}
            /\ (calls[j].status = "pending" /\ LaterCalls(j) = {}) =>
                  [id |-> j, inst |-> calls[j].inst, args |-> calls[j].input,
                   remaining |-> 0] \in
                      {[t EXCEPT !.remaining = 0] : t \in timers}

\* both calls of a separated pair are out as queries, each with its own input
SeparatedCallsBothIssued ==
    \E k, j \in CallIds :
        /\ SeparatedPair(k, j)
        /\ calls[k].input # calls[j].input
        /\ [inst |-> calls[k].inst, call |-> k, input |-> calls[k].input] \in queries
        /\ [inst |-> calls[j].inst, call |-> j, input |-> calls[j].input] \in queries

\* C12: the process-wide flag is unset at the start, becomes set only in a
\* step in which a script element has its load event (not by a failed load,
\* not by an instance that found the capability present), and once set is
\* never reset.
LoadFlagOnlyBySuccessfulLoad ==
    /\ ~googleMapsApiLoaded
    /\ [][/\ googleMapsApiLoaded => googleMapsApiLoaded'
          /\ (~googleMapsApiLoaded /\ googleMapsApiLoaded') =>
                 \E s \in 1..Len(scripts) :
                     scripts[s].state = "loading" /\ scripts'[s].state = "loaded"]_vars

\* one load failed and left the flag unset for the instance; another load set it
LoadFlagSetAfterFailure ==
    /\ googleMapsApiLoaded
    /\ \E s \in 1..Len(scripts) : scripts[s].state = "error"
    /\ \E i \in Inst : mountPc[i] = "caught" /\ ~isGoogleMapsApiLoaded[i]

\* C13: an instance that initializes while the capability is present is
\* loaded when its onMounted returns, in the same step, and no script
\* element is inserted.
PresentCapabilityLoadsSynchronously ==
    [][\A i \in Inst :
          (mountPc[i] = "setup" /\ mountPc'[i] # "setup" /\ googleDefined) =>
              /\ isGoogleMapsApiLoaded'[i]
              /\ mountPc'[i] = "done"
              /\ scripts' = scripts]_vars

\* an instance initialized with the capability present after another one's
\* script load had provided it
MountedWithCapabilityPresent ==
    \E i, j \in Inst :
        /\ i # j
        /\ scripts = <<[owner |-> j, state |-> "loaded"]>>
        /\ mountPc[i] = "done"
        /\ isGoogleMapsApiLoaded[i]

\* C14 (as claimed): every selection whose lookup has settled emitted
\* 'place-selected' with what the lookup settled to, the detail or the
\* rejection.
SelectionAlwaysNotifies ==
    \A n \in 1..Len(selections) :
        (details[selections[n].detail].state # "pending" /\ ~MicrotaskPending) =>
            \E e \in 1..Len(emitted) :
                /\ emitted[e].name = "place-selected"
                /\ emitted[e].inst = selections[n].inst
                /\ emitted[e].payload = details[selections[n].detail].value

\* C15: every prediction response is applied when it arrives, in whatever
\* order the responses come: after the step predictions is the list the
\* service handed over, in its order, the empty list for null, and loading
\* is false.
ResponsesAppliedOnArrival ==
    [][\A q \in queries :
          q \notin queries' =>
              /\ lastResp'[q.inst].call = q.call
              /\ predictions'[q.inst] =
                     IF lastResp'[q.inst].result.isNull
                         THEN <<>> ELSE lastResp'[q.inst].result.items
              /\ ~loading'[q.inst]]_vars

\* two overlapping queries have both been answered, the earlier-issued one
\* last, and its two-item list is on display in the service's order
OlderResponseArrivedLast ==
    \E i \in Inst :
        /\ lastResp[i].call # 0
        /\ lastResp[i].call < lastResp[i].newest
        /\ \A q \in queries : q.inst # i
        /\ lastResp[i].result.items = <<"p2", "p1">>
        /\ predictions[i] = <<"p2", "p1">>

\* the prediction queries of instance i that are awaiting their response
Outstanding(i) == {q \in queries : q.inst = i}

\* C16 (as claimed): once the owning component is unmounted, no timer
\* callback and no response changes predictions or loading of the instance
\* or issues a query for it.
TornDownInstanceIsInert ==
    [][\A i \in Inst :
          ~alive[i] =>
              /\ predictions'[i] = predictions[i]
              /\ loading'[i] = loading[i]
              /\ Outstanding(i)' \subseteq Outstanding(i)]_vars

\* C17: isGoogleMapsApiLoaded of an instance starts false, becomes true only
\* in a step that completes the instance's own onMounted successfully
\* (capability found present, or its own script's load event), and never
\* becomes false again.
InstanceLoadedOnlyByOwnInit ==
    /\ \A i \in Inst : ~isGoogleMapsApiLoaded[i]
    /\ [][\A i \in Inst :
             /\ isGoogleMapsApiLoaded[i] => isGoogleMapsApiLoaded'[i]
             /\ (~isGoogleMapsApiLoaded[i] /\ isGoogleMapsApiLoaded'[i]) =>
                    /\ mountPc'[i] = "done"
                    /\ \/ mountPc[i] = "setup" /\ googleDefined
                       \/ /\ mountPc[i] = "awaitLoad"
                          /\ \E s \in ScriptsOf(i) :
                                scripts[s].state = "loading" /\ scripts'[s].state = "loaded"]_vars

\* another instance's script has loaded and this one, still waiting for its
\* own script, ran a search as a no-op
OtherInstanceLoadedFirst ==
    \E i, j \in Inst :
        /\ isGoogleMapsApiLoaded[i]
        /\ mountPc[j] = "awaitLoad"
        /\ ~isGoogleMapsApiLoaded[j]
        /\ googleMapsApiLoaded
        /\ \E k \in CallIds : calls[k].inst = j /\ calls[k].status = "noop"

\* C18 (as claimed): loading is true whenever a prediction query of the
\* instance is awaiting its response.
LoadingWhileAnyOutstanding ==
    \A i \in Inst : Outstanding(i) # {} => loading[i]

\* C18 (amended): loading is raised when a query is issued and stays true
\* until the next response of the instance arrives; that response lowers
\* it, whichever query it answers and whether or not another query of the
\* instance is still awaiting its response.
LoadingUntilNextResponse ==
    [][\A i \in Inst :
          /\ ~(Outstanding(i)' \subseteq Outstanding(i)) => loading'[i]
          /\ ~(Outstanding(i) \subseteq Outstanding(i)') => ~loading'[i]
          /\ (loading[i] /\ ~loading'[i]) => ~(Outstanding(i) \subseteq Outstanding(i)')]_vars

\* the first of two overlapping queries was answered: loading is down while
\* the second is still awaiting its response
OutstandingButNotLoading ==
    \E i \in Inst :
        /\ ~loading[i]
        /\ \E q \in Outstanding(i) : lastResp[i].call # 0 /\ lastResp[i].call < q.call

\* the calls the instance of selection n made after that selection's reset
CallsSinceReset(n) ==
    {k \in CallIds : k > selections[n].callsAtReset /\ calls[k].inst = selections[n].inst}

\* C19 (as claimed): after the reset that follows a selection, predictions
\* stays empty as long as the widget makes no new search call.
EmptyAfterResetUntilNewSearch ==
    \A n \in 1..Len(selections) :
        (selections[n].state = "emitted" /\ CallsSinceReset(n) = {}) =>
            predictions[selections[n].inst] = <<>>

\* C19 (amended): resetPredictions() empties the list and cancels nothing:
\* timers and queries of the instance stay as they are, and the emptied
\* list is filled again only by the arrival of a prediction response of the
\* instance, which includes the response of a query that was in flight, or
\* whose timer was pending, when the reset was made.
ResetEmptiesUntilNextResponse ==
    [][/\ lastReset' # 0 =>
             /\ predictions'[lastReset'] = <<>>
             /\ timers' = timers
             /\ queries' = queries
       /\ \A i \in Inst :
             (predictions[i] = <<>> /\ predictions'[i] # <<>>) =>
                 ~(Outstanding(i) \subseteq Outstanding(i)')]_vars

\* after a selection and its reset, with no new search call, the list shows
\* the response of a query that was made before the reset
RepopulatedAfterSelection ==
    \E n \in 1..Len(selections) :
        /\ selections[n].state = "emitted"
        /\ CallsSinceReset(n) = {}
        /\ predictions[selections[n].inst] # <<>>
        /\ lastResp[selections[n].inst].call # 0

\* C20: when time passes, due timers run and every query is answered,
\* loading of every instance is eventually false and stays false.
LoadingEventuallySettles == <>[](\A i \in Inst : ~loading[i])

\* all calls are made, the last query has been answered, nothing is pending
SearchesSettled ==
    /\ Len(calls) = MaxCalls
    /\ timers = {}
    /\ queries = {}
    /\ \E k \in CallIds : calls[k].status = "issued"
    /\ \A i \in Inst : ~loading[i]

====
